---- MODULE Spec2Model ----
(***************************************************************************)
(* A model of cache.py: the CacheLevel class of a multi-level,             *)
(* set-associative cache simulator.  A level is an object with a geometry, *)
(* an eviction policy, one OrderedDict (tag -> block address) per set and  *)
(* one set of dirty tags per set.  The driver calls access, evict and      *)
(* invalidate on the levels of a chain; every call runs to completion.     *)
(***************************************************************************)
EXTENDS Integers, Sequences, FiniteSets, TLC

VARIABLES
    levels,     \* level number -> CacheLevel object (1 is nearest the accessor)
    reports,    \* the report_* notifications emitted by the last call, in order
    last,       \* the last call: what was called, with what, and how it ended
    arrival,    \* history: per level and set, the resident tags in fill order
    touched,    \* history: per level and set, the resident tags in order of
                \*          their last fill or Read/Write hit
    script,     \* the driver's place in a scripted run, "free" when it has none
    calc        \* the address calculator's registers (address arithmetic only)

vars == <<levels, reports, last, arrival, touched, script, calc>>

----------------------------------------------------------------------------
(* Bounds of the exploration *)

\* block numbers the driver addresses: 0..MaxBlock
MaxBlock == 2
\* the address calculator is exercised on addresses 0..MaxAddr ...
MaxAddr == 24
\* ... with sizes 1..MaxSize, block sizes 1..MaxBlockSize and 1..MaxWays ways
MaxSize == 12
MaxBlockSize == 3
MaxWays == 2

\* the eviction policies the code names, and one it does not
KnownPolicies == {"FIFO", "LRU", "MRU"}
Policies == KnownPolicies \cup {"RANDOM"}

\* the operation codes the code names, and one it does not
KnownOperations == {"R", "W", "B"}
Operations == KnownOperations \cup {"X"}

\* the hierarchies the driver is run on: a chain of n identical levels of the
\* given geometry (num_sets = 1 with two ways, num_sets = 2 with one way, and a
\* two-level chain of one-way, one-set levels)
Configurations ==
    { [n |-> 1, size |-> 2, block_size |-> 1, associativity |-> 2],
      [n |-> 1, size |-> 4, block_size |-> 2, associativity |-> 1],
      [n |-> 2, size |-> 2, block_size |-> 2, associativity |-> 1] }

NoTag == -1

----------------------------------------------------------------------------
(* collections.OrderedDict, as the sequence of its (key, value) items *)

Keys(od) == { od[k].tag : k \in DOMAIN od }

HasKey(od, tag) == tag \in Keys(od)

\* od[tag] = value: a new key goes to the end, an old key keeps its place
SetItem(od, tag, value) ==
    IF HasKey(od, tag)
    THEN [k \in DOMAIN od |->
            IF od[k].tag = tag THEN [tag |-> tag, block |-> value] ELSE od[k]]
    ELSE Append(od, [tag |-> tag, block |-> value])

PopItem(od, tag) == SelectSeq(od, LAMBDA e : e.tag # tag)

move_to_end(od, tag) ==
    SelectSeq(od, LAMBDA e : e.tag # tag) \o SelectSeq(od, LAMBDA e : e.tag = tag)

\* next(iter(od.items())) and next(reversed(od.items()))
FirstKey(od) == od[1].tag
LastKey(od) == od[Len(od)].tag

----------------------------------------------------------------------------
(* CacheLevel.__init__ *)

NumSets(size, block_size, associativity) == size \div (block_size * associativity)

CacheLevel(size, block_size, associativity, eviction_policy) ==
    LET num_sets == NumSets(size, block_size, associativity) IN
    [ size            |-> size,
      block_size      |-> block_size,
      associativity   |-> associativity,
      eviction_policy |-> eviction_policy,
      num_sets        |-> num_sets,
      cache           |-> [i \in 0 .. num_sets - 1 |-> << >>],
      dirty_bits      |-> [i \in 0 .. num_sets - 1 |-> {}] ]

----------------------------------------------------------------------------
(* Address arithmetic *)

\* the index taken from the address instead of from the block number
_calculate_index_OfAddress(L, address) == address % L.num_sets

_calculate_index(L, address) == (address \div L.block_size) % L.num_sets

\* address // block_size * num_sets, the parentheses of line 27 left out
_calculate_tag_Unparenthesised(L, address) == (address \div L.block_size) * L.num_sets

_calculate_tag(L, address) == address \div (L.block_size * L.num_sets)

\* the address itself, the offset within the block not taken off
_calculate_block_address_Unaligned(L, address) == address

_calculate_block_address(L, address) == address - (address % L.block_size)

_calculate_block_address_from_tag_index(L, tag, cache_index) ==
    (tag * L.num_sets + cache_index) * L.block_size

is_dirty(L, block_address) ==
    _calculate_tag(L, block_address)
        \in L.dirty_bits[_calculate_index(L, block_address)]

is_resident(L, block_address) ==
    HasKey(L.cache[_calculate_index(L, block_address)],
           _calculate_tag(L, block_address))

----------------------------------------------------------------------------
(* Level.report_hit / report_miss / report_eviction / report_writeback:    *)
(* notifications to the statistics collector                               *)

Report(kind, name, address) == [kind |-> kind, level |-> name, address |-> address]

\* what a call hands back: the object afterwards, what it reported, and the
\* exception it ended with ("none" when it returned)
Outcome(L, reps, raised) == [lvl |-> L, reports |-> reps, raised |-> raised]

----------------------------------------------------------------------------
(* CacheLevel.invalidate *)

\* line 117 (and line 95): dirty_bits[cache_index].remove(tag)
ClearDirty_Forgotten(dirty, tag) == dirty

ClearDirty(dirty, tag) == dirty \ {tag}

\* invalidate without the residence test of line 114
invalidate_Unguarded(L, name, block_address) ==
    LET cache_index == _calculate_index(L, block_address)
        tag == _calculate_tag(L, block_address)
        wasDirty == tag \in L.dirty_bits[cache_index]
        L1 == IF wasDirty
              THEN [L EXCEPT !.dirty_bits[cache_index] = ClearDirty(@, tag)]
              ELSE L
        L2 == [L1 EXCEPT !.cache[cache_index] = PopItem(@, tag)]
    IN  Outcome(L2,
                (IF wasDirty
                 THEN << Report("writeback", name, block_address) >>
                 ELSE << >>)
                  \o << Report("eviction", name, block_address) >>,
                "none")

\* invalidate without the report of line 116
invalidate_Silent(L, name, block_address) ==
    LET cache_index == _calculate_index(L, block_address)
        tag == _calculate_tag(L, block_address)
    IN  IF HasKey(L.cache[cache_index], tag)
        THEN LET L1 == [L EXCEPT !.dirty_bits[cache_index] = ClearDirty(@, tag)]
                 L2 == [L1 EXCEPT !.cache[cache_index] = PopItem(@, tag)]
             IN  Outcome(L2, << Report("eviction", name, block_address) >>, "none")
        ELSE Outcome(L, << >>, "none")

invalidate(L, name, block_address) ==
    LET cache_index == _calculate_index(L, block_address)
        tag == _calculate_tag(L, block_address)
    IN  IF HasKey(L.cache[cache_index], tag)
        THEN LET wasDirty == tag \in L.dirty_bits[cache_index]
                 L1 == IF wasDirty
                       THEN [L EXCEPT !.dirty_bits[cache_index] = ClearDirty(@, tag)]
                       ELSE L
                 L2 == [L1 EXCEPT !.cache[cache_index] = PopItem(@, tag)]
             IN  Outcome(L2,
                         (IF wasDirty
                          THEN << Report("writeback", name, block_address) >>
                          ELSE << >>)
                           \o << Report("eviction", name, block_address) >>,
                         "none")
        ELSE Outcome(L, << >>, "none")

----------------------------------------------------------------------------
(* CacheLevel.evict *)

\* lines 81-89: the victim the policy selects; NoTag for a policy that is none
\* of the three
SelectVictim(L, cache_index) ==
    LET od == L.cache[cache_index] IN
    CASE L.eviction_policy = "FIFO" -> FirstKey(od)
      [] L.eviction_policy = "LRU"  -> FirstKey(od)
      [] L.eviction_policy = "MRU"  -> LastKey(od)
      [] OTHER -> NoTag

\* the names bound when line 91 runs: self, cache_index, victim_block_tag and
\* the module's imports; line 91 reads victim_tag
NamesAtLine91 == {"self", "cache_index", "victim_block_tag", "deque", "OrderedDict", "Level", "CacheLevel"}

\* evict whose last branch selects as FIFO does instead of returning
evict_DefaultFifo(L, name, cache_index) ==
    IF L.cache[cache_index] = << >>
    THEN Outcome(L, << >>, "StopIteration")                \* next() of an empty iterator
    ELSE IF "victim_tag" \notin NamesAtLine91
    THEN Outcome(L, << >>, "NameError")                    \* line 91
    ELSE LET victim_block_tag == SelectVictim(L, cache_index)
             evicted_block == _calculate_block_address_from_tag_index(L, victim_block_tag, cache_index)
             wasDirty == victim_block_tag \in L.dirty_bits[cache_index]
             L1 == IF wasDirty
                   THEN [L EXCEPT !.dirty_bits[cache_index] = ClearDirty(@, victim_block_tag)]
                   ELSE L
             L2 == [L1 EXCEPT !.cache[cache_index] = PopItem(@, victim_block_tag)]
             inv == invalidate(L2, name, evicted_block)
         IN  Outcome(inv.lvl,
                     (IF wasDirty
                      THEN << Report("writeback", name, evicted_block) >>
                      ELSE << >>)
                       \o << Report("eviction", name, evicted_block) >>
                       \o inv.reports,
                     inv.raised)

evict(L, name, cache_index) ==
    IF L.eviction_policy \notin KnownPolicies
    THEN Outcome(L, << >>, "none")                         \* line 89: return
    ELSE IF L.cache[cache_index] = << >>
    THEN Outcome(L, << >>, "StopIteration")                \* next() of an empty iterator
    ELSE IF "victim_tag" \notin NamesAtLine91
    THEN Outcome(L, << >>, "NameError")                    \* line 91
    ELSE LET victim_block_tag == SelectVictim(L, cache_index)
             evicted_block == _calculate_block_address_from_tag_index(L, victim_block_tag, cache_index)
             wasDirty == victim_block_tag \in L.dirty_bits[cache_index]
             L1 == IF wasDirty
                   THEN [L EXCEPT !.dirty_bits[cache_index] = ClearDirty(@, victim_block_tag)]
                   ELSE L
             L2 == [L1 EXCEPT !.cache[cache_index] = PopItem(@, victim_block_tag)]
             inv == invalidate(L2, name, evicted_block)
         IN  Outcome(inv.lvl,
                     (IF wasDirty
                      THEN << Report("writeback", name, evicted_block) >>
                      ELSE << >>)
                       \o << Report("eviction", name, evicted_block) >>
                       \o inv.reports,
                     inv.raised)

----------------------------------------------------------------------------
(* CacheLevel.access *)

\* line 67 with > for >=
NeedsEvict_Strict(len, associativity) == len > associativity

\* line 67
NeedsEvict(len, associativity) == len >= associativity

\* line 58
RefreshesOnHit(eviction_policy, operation) == eviction_policy = "LRU"

\* lines 61 and 72
MarksDirty(operation) == operation = "W"

\* lines 62 and 73 on a level whose sets all share one set object
AddDirty_Shared(dirty_bits, cache_index, tag) ==
    [i \in DOMAIN dirty_bits |-> dirty_bits[i] \cup {tag}]

\* lines 62 and 73: dirty_bits[cache_index].add(tag)
AddDirty(dirty_bits, cache_index, tag) ==
    [dirty_bits EXCEPT ![cache_index] = @ \cup {tag}]

access(L, name, operation, address) ==
    LET cache_index == _calculate_index(L, address)
        tag == _calculate_tag(L, address)
        block_address == _calculate_block_address(L, address)
        od == L.cache[cache_index]
    IN  IF HasKey(od, tag)
        THEN LET L1 == IF RefreshesOnHit(L.eviction_policy, operation)
                       THEN [L EXCEPT !.cache[cache_index] = move_to_end(@, tag)]
                       ELSE L
                 L2 == IF MarksDirty(operation)
                       THEN [L1 EXCEPT !.dirty_bits = AddDirty(@, cache_index, tag)]
                       ELSE L1
             IN  Outcome(L2, << Report("hit", name, address) >>, "none")
        ELSE LET miss == << Report("miss", name, address) >>
                 ev == IF NeedsEvict(Len(od), L.associativity)
                       THEN evict(L, name, cache_index)
                       ELSE Outcome(L, << >>, "none")
             IN  IF ev.raised # "none"
                 THEN Outcome(ev.lvl, miss \o ev.reports, ev.raised)
                 ELSE LET L1 == [ev.lvl EXCEPT !.cache[cache_index] =
                                    SetItem(@, tag, block_address)]
                          L2 == IF MarksDirty(operation)
                                THEN [L1 EXCEPT !.dirty_bits = AddDirty(@, cache_index, tag)]
                                ELSE L1
                      IN  Outcome(L2, miss \o ev.reports, "none")

----------------------------------------------------------------------------
(* History: fill order and touch order of the resident tags *)

Restrict(seq, S) == SelectSeq(seq, LAMBDA t : t \in S)

Without(seq, t) == SelectSeq(seq, LAMBDA u : u # t)

\* the per-set histories of one level after a call that left it as Lnew:
\* tags no longer resident drop out, filled tags go to the end
ArrivalAfter(arr, Lnew) ==
    [i \in DOMAIN arr |->
        LET res == Keys(Lnew.cache[i])
            kept == Restrict(arr[i], res)
            new == res \ { kept[k] : k \in DOMAIN kept }
        IN  IF new = {} THEN kept ELSE Append(kept, CHOOSE t \in new : TRUE)]

TouchedAfter(tch, Lnew, touchIdx, touchTag) ==
    [i \in DOMAIN tch |->
        LET res == Keys(Lnew.cache[i])
            moved == IF i = touchIdx /\ touchTag \in res
                     THEN Append(Without(tch[i], touchTag), touchTag)
                     ELSE tch[i]
        IN  Restrict(moved, res)]

----------------------------------------------------------------------------
(* The driver *)

Chain == DOMAIN levels

\* Level.__init__: the neighbours of level l in the chain, 0 for none; the
\* higher level is the one nearer the accessor
HigherLevel(l) == IF l - 1 \in Chain THEN l - 1 ELSE 0
LowerLevel(l) == IF l + 1 \in Chain THEN l + 1 ELSE 0

NoCall == [op |-> "none", level |-> 0, operation |-> "-", arg |-> 0,
           raised |-> "none", hit |-> FALSE, full |-> FALSE, victim |-> NoTag,
           victimDirty |-> FALSE, earliest |-> NoTag, oldestTouch |-> NoTag,
           newestTouch |-> NoTag]

NoCalc == [stage |-> "off", address |-> 0, tag |-> 0, index |-> 0,
           block_address |-> 0, rebuilt |-> 0]

First(seq) == IF seq = << >> THEN NoTag ELSE seq[1]
Newest(seq) == IF seq = << >> THEN NoTag ELSE seq[Len(seq)]

\* the addresses the driver presents to a level: the first and the last byte
\* of blocks 0..MaxBlock
DriverAddresses(L) ==
    { b * L.block_size + off : b \in 0 .. MaxBlock, off \in {0, L.block_size - 1} }

DriverBlocks(L) == { b * L.block_size : b \in 0 .. MaxBlock }

EmptyHistory == [l \in DOMAIN levels |-> [i \in DOMAIN levels[l].cache |-> << >>]]

Init ==
    /\ \E c \in Configurations, p \in KnownPolicies :
          levels = [l \in 1 .. c.n |->
                      CacheLevel(c.size, c.block_size, c.associativity, p)]
    /\ reports = << >>
    /\ last = NoCall
    /\ arrival = EmptyHistory
    /\ touched = EmptyHistory
    /\ script = "free"
    /\ calc = NoCalc

\* one call of levels[l].access(operation, address)
Access(l, operation, address) ==
    LET L == levels[l]
        cache_index == _calculate_index(L, address)
        tag == _calculate_tag(L, address)
        od == L.cache[cache_index]
        hit == HasKey(od, tag)
        full == Len(od) >= L.associativity
        victim == IF ~hit /\ full /\ od # << >> THEN SelectVictim(L, cache_index) ELSE NoTag
        out == access(L, l, operation, address)
        isTouch == ~hit \/ operation \in {"R", "W"}
    IN  /\ levels' = [levels EXCEPT ![l] = out.lvl]
        /\ reports' = out.reports
        /\ last' = [op |-> "access", level |-> l, operation |-> operation,
                    arg |-> address, raised |-> out.raised, hit |-> hit,
                    full |-> full, victim |-> victim,
                    victimDirty |-> victim \in L.dirty_bits[cache_index],
                    earliest |-> First(arrival[l][cache_index]),
                    oldestTouch |-> First(touched[l][cache_index]),
                    newestTouch |-> Newest(touched[l][cache_index])]
        /\ arrival' = [arrival EXCEPT ![l] = ArrivalAfter(@, out.lvl)]
        /\ touched' = [touched EXCEPT ![l] =
                         TouchedAfter(@, out.lvl, cache_index,
                                      IF isTouch /\ out.raised = "none" THEN tag ELSE NoTag)]
        /\ UNCHANGED calc

\* one call of levels[l].evict(cache_index)
Evict(l, cache_index) ==
    LET L == levels[l]
        od == L.cache[cache_index]
        victim == IF od # << >> THEN SelectVictim(L, cache_index) ELSE NoTag
        out == evict(L, l, cache_index)
    IN  /\ levels' = [levels EXCEPT ![l] = out.lvl]
        /\ reports' = out.reports
        /\ last' = [op |-> "evict", level |-> l, operation |-> "-",
                    arg |-> cache_index, raised |-> out.raised, hit |-> FALSE,
                    full |-> Len(od) >= L.associativity, victim |-> victim,
                    victimDirty |-> victim \in L.dirty_bits[cache_index],
                    earliest |-> First(arrival[l][cache_index]),
                    oldestTouch |-> First(touched[l][cache_index]),
                    newestTouch |-> Newest(touched[l][cache_index])]
        /\ arrival' = [arrival EXCEPT ![l] = ArrivalAfter(@, out.lvl)]
        /\ touched' = [touched EXCEPT ![l] = TouchedAfter(@, out.lvl, cache_index, NoTag)]
        /\ UNCHANGED calc

\* one call of levels[l].invalidate(block_address)
Invalidate(l, block_address) ==
    LET L == levels[l]
        out == invalidate(L, l, block_address)
    IN  /\ levels' = [levels EXCEPT ![l] = out.lvl]
        /\ reports' = out.reports
        /\ last' = [op |-> "invalidate", level |-> l, operation |-> "-",
                    arg |-> block_address, raised |-> out.raised,
                    hit |-> is_resident(L, block_address),
                    full |-> FALSE, victim |-> NoTag, victimDirty |-> FALSE,
                    earliest |-> NoTag, oldestTouch |-> NoTag, newestTouch |-> NoTag]
        /\ arrival' = [arrival EXCEPT ![l] = ArrivalAfter(@, out.lvl)]
        /\ touched' = [touched EXCEPT ![l] =
                         TouchedAfter(@, out.lvl, _calculate_index(L, block_address), NoTag)]
        /\ UNCHANGED calc

\* the driver is free once it has no script left to follow
Unscripted == script \in {"free", "done"}

DoAccess ==
    /\ Unscripted
    /\ script' = "free"
    /\ \E l \in Chain : \E operation \in Operations :
          \E address \in DriverAddresses(levels[l]) : Access(l, operation, address)

DoEvict ==
    /\ Unscripted
    /\ script' = "free"
    /\ \E l \in Chain : \E cache_index \in DOMAIN levels[l].cache : Evict(l, cache_index)

DoInvalidate ==
    /\ Unscripted
    /\ script' = "free"
    /\ \E l \in Chain : \E block_address \in DriverBlocks(levels[l]) :
          Invalidate(l, block_address)

Next == DoAccess \/ DoEvict \/ DoInvalidate

Spec == Init /\ [][Next]_vars

----------------------------------------------------------------------------
(* The end-to-end example: one level of size 64, block size 16 and two     *)
(* ways, FIFO; the driver first accesses addresses 0, 16, 32 in this order *)
(* and is free afterwards                                                  *)

ExampleTrace == << 0, 16, 32 >>

InitExample ==
    /\ levels = [l \in {1} |-> CacheLevel(64, 16, 2, "FIFO")]
    /\ reports = << >>
    /\ last = NoCall
    /\ arrival = EmptyHistory
    /\ touched = EmptyHistory
    /\ script = "at1"
    /\ calc = NoCalc

ScriptPlace == [at1 |-> 1, at2 |-> 2, at3 |-> 3]
ScriptNext == [at1 |-> "at2", at2 |-> "at3", at3 |-> "done"]

DoScriptedAccess ==
    /\ script \in DOMAIN ScriptPlace
    /\ script' = ScriptNext[script]
    /\ \E operation \in KnownOperations :
          Access(1, operation, ExampleTrace[ScriptPlace[script]])

NextExample == DoScriptedAccess \/ DoAccess \/ DoEvict \/ DoInvalidate

SpecExample == InitExample /\ [][NextExample]_vars

----------------------------------------------------------------------------
(* The address calculator: one level of any geometry, one address, and the *)
(* decomposition of the address followed by its reconstruction             *)

InitAddr ==
    /\ \E size \in 1 .. MaxSize, block_size \in 1 .. MaxBlockSize,
          associativity \in 1 .. MaxWays :
          levels = [l \in {1} |-> CacheLevel(size, block_size, associativity, "FIFO")]
    /\ reports = << >>
    /\ last = NoCall
    /\ arrival = EmptyHistory
    /\ touched = EmptyHistory
    /\ script = "free"
    /\ \E address \in 0 .. MaxAddr : calc = [NoCalc EXCEPT !.stage = "start", !.address = address]

\* _calculate_index, _calculate_tag and _calculate_block_address of the address;
\* with num_sets = 0 the first of them divides by zero
Decompose ==
    /\ calc.stage = "start"
    /\ calc' = IF levels[1].num_sets = 0
               THEN [calc EXCEPT !.stage = "ZeroDivisionError"]
               ELSE [calc EXCEPT !.stage = "decomposed",
                                 !.index = _calculate_index(levels[1], calc.address),
                                 !.tag = _calculate_tag(levels[1], calc.address),
                                 !.block_address = _calculate_block_address(levels[1], calc.address)]
    /\ UNCHANGED <<levels, reports, last, arrival, touched, script>>

\* _calculate_block_address_from_tag_index of the tag and index just computed
Rebuild ==
    /\ calc.stage = "decomposed"
    /\ calc' = [calc EXCEPT !.stage = "rebuilt",
                            !.rebuilt = _calculate_block_address_from_tag_index(
                                            levels[1], calc.tag, calc.index)]
    /\ UNCHANGED <<levels, reports, last, arrival, touched, script>>

NextAddr == Decompose \/ Rebuild

SpecAddr == InitAddr /\ [][NextAddr]_vars

----------------------------------------------------------------------------
(* A level whose eviction policy is none of FIFO, LRU, MRU: one way, two   *)
(* sets of one-byte blocks                                                 *)

InitUnknown ==
    /\ levels = [l \in {1} |-> CacheLevel(2, 1, 1, "RANDOM")]
    /\ reports = << >>
    /\ last = NoCall
    /\ arrival = EmptyHistory
    /\ touched = EmptyHistory
    /\ script = "free"
    /\ calc = NoCalc

SpecUnknown == InitUnknown /\ [][Next]_vars

----------------------------------------------------------------------------
(* A chain of two levels with two sets each (one way, one-byte blocks);    *)
(* with one way the three policies select the same victim, so the chain is *)
(* run under FIFO                                                          *)

InitChain ==
    /\ levels = [l \in {1, 2} |-> CacheLevel(2, 1, 1, "FIFO")]
    /\ reports = << >>
    /\ last = NoCall
    /\ arrival = EmptyHistory
    /\ touched = EmptyHistory
    /\ script = "free"
    /\ calc = NoCalc

SpecChain == InitChain /\ [][Next]_vars

----------------------------------------------------------------------------
(* Properties *)

\* the level the last call was made on, and the set it addressed
CalledLevel == levels[last.level]

CalledSet ==
    IF last.op = "evict" THEN last.arg ELSE _calculate_index(CalledLevel, last.arg)

\* the last call was an access that missed in a set that was already full
FullMiss == last.op = "access" /\ ~last.hit /\ last.full

BlockOf(tag) == _calculate_block_address_from_tag_index(CalledLevel, tag, CalledSet)

\* how many reports of the kind the last call emitted for the block
CountReports(kind, block_address) ==
    Cardinality({ k \in DOMAIN reports :
                    reports[k] = Report(kind, last.level, block_address) })

\* the last call removed the tag from the set it addressed and reported its
\* eviction
Evicted(tag) ==
    /\ CountReports("eviction", BlockOf(tag)) = 1
    /\ tag \notin Keys(CalledLevel.cache[CalledSet])

\* C1: under FIFO, LRU or MRU every set of every level holds at most
\* `associativity` resident tags, in every state the calls can reach.
C1_Capacity ==
    \A l \in Chain :
        levels[l].eviction_policy \in KnownPolicies =>
            \A i \in DOMAIN levels[l].cache :
                /\ Len(levels[l].cache[i]) <= levels[l].associativity
                /\ Cardinality(Keys(levels[l].cache[i])) <= levels[l].associativity

\* an access has just missed in a full set, and the set holds exactly
\* `associativity` tags
C1_Witness ==
    /\ FullMiss
    /\ last.operation \in KnownOperations
    /\ CalledLevel.eviction_policy \in KnownPolicies
    /\ Len(CalledLevel.cache[CalledSet]) = CalledLevel.associativity

\* C2: in every state reachable by access, evict and invalidate calls, every
\* tag of dirty_bits[i] is a key of cache[i].
C2_DirtyImpliesResident ==
    \A l \in Chain : \A i \in DOMAIN levels[l].cache :
        levels[l].dirty_bits[i] \subseteq Keys(levels[l].cache[i])

\* a dirty block has just been invalidated while another dirty block stays
C2_Witness ==
    /\ last.op = "invalidate"
    /\ last.hit
    /\ CountReports("writeback", last.arg) = 1
    /\ ~is_resident(CalledLevel, last.arg)
    /\ CalledLevel.dirty_bits[CalledSet] # {}

\* C3: when an access misses in a full set and so forces out a block that a
\* Write made dirty, exactly one writeback is reported for that block and the
\* block is dirty (and resident) no longer.
C3_WritebackBeforeEvict ==
    (FullMiss /\ last.victimDirty) =>
        /\ CountReports("writeback", BlockOf(last.victim)) = 1
        /\ ~is_dirty(CalledLevel, BlockOf(last.victim))
        /\ ~is_resident(CalledLevel, BlockOf(last.victim))

\* C4: under FIFO a miss in a full set evicts (removes, and reports as
\* evicted) the tag that was filled earliest among the resident tags.
C4_FifoEvictsEarliest ==
    (FullMiss /\ CalledLevel.eviction_policy = "FIFO") => Evicted(last.earliest)

\* C5: under LRU a miss in a full set evicts the resident tag whose latest
\* fill or Read/Write hit is the oldest.
C5_LruEvictsLeastRecent ==
    (FullMiss /\ CalledLevel.eviction_policy = "LRU") => Evicted(last.oldestTouch)

\* C6: under MRU a miss in a full set evicts the resident tag whose latest
\* fill or Read/Write hit is the newest.
C6_MruEvictsMostRecent ==
    (FullMiss /\ CalledLevel.eviction_policy = "MRU") => Evicted(last.newestTouch)

\* C7: for every geometry with num_sets >= 1 and every address a, rebuilding
\* the block address from tag(a) and index(a) gives block_address(a).
C7_RoundTrip ==
    (calc.stage = "rebuilt" /\ levels[1].num_sets >= 1) =>
        calc.rebuilt = calc.block_address

\* an unaligned address with a nonzero tag and a nonzero index has been
\* decomposed and rebuilt, in a geometry whose size was truncated
C7_Witness ==
    /\ calc.stage = "rebuilt"
    /\ calc.address % levels[1].block_size # 0
    /\ calc.tag > 0
    /\ calc.index > 0
    /\ levels[1].size # levels[1].num_sets * levels[1].block_size * levels[1].associativity

\* C8: invalidate(b) on a level where b is not resident reports nothing and
\* leaves the mappings and dirty sets of this and every other level as they
\* were.
C8_AbsentInvalidateNoEffect ==
    [][ (last'.op = "invalidate" /\ ~is_resident(levels[last'.level], last'.arg))
                => /\ reports' = << >>
                   /\ levels' = levels
                   /\ last'.raised = "none" ]_vars

\* the upper level has just been asked to invalidate a block it does not hold
\* while the level below it holds that block
C8_Witness ==
    /\ last.op = "invalidate"
    /\ ~last.hit
    /\ last.level = 1
    /\ 2 \in Chain
    /\ is_resident(levels[2], last.arg)
    /\ reports = << >>

\* the first two accesses of the example miss
ExampleOpens ==
    /\ script = "at2" => reports = << Report("miss", 1, 0) >>
    /\ script = "at3" => reports = << Report("miss", 1, 16) >>

\* C9 as stated: in the example the accesses to 0 and 16 miss and the access
\* to 32 evicts the block at address 0.
C9_ExampleEvictsBlock0 ==
    /\ ExampleOpens
    /\ script = "done" => CountReports("eviction", 0) >= 1

\* C9 as amended: in the example all three accesses miss and nothing is
\* evicted; 0 and 32 share set 0 (two ways), 16 is in set 1, and all three
\* blocks are resident after the third access.
C9_ExampleThreeMisses ==
    /\ ExampleOpens
    /\ script = "done" =>
          /\ reports = << Report("miss", 1, 32) >>
          /\ last.raised = "none"
          /\ levels[1].cache[0] = << [tag |-> 0, block |-> 0], [tag |-> 1, block |-> 32] >>
          /\ levels[1].cache[1] = << [tag |-> 0, block |-> 16] >>

\* the third access of the example has just completed
C9_Witness ==
    /\ script = "done"
    /\ last.op = "access"
    /\ last.arg = 32
    /\ ~last.hit

\* C10: an access with an operation code outside R, W, B ends with an
\* InvalidOperation error and leaves the mappings and dirty sets alone.
C10_InvalidOperationRejected ==
    [][ \A l \in Chain : \A address \in DriverAddresses(levels[l]) :
          \A operation \in Operations \ KnownOperations :
            Access(l, operation, address)
                => /\ last'.raised = "InvalidOperation"
                   /\ levels' = levels ]_vars

\* C11: a level whose size is not a multiple of block_size * associativity
\* is rejected at construction, so no level with a truncated num_sets
\* (num_sets = 0 included) exists.
C11_TruncatedGeometryRejected ==
    \A l \in Chain :
        /\ levels[l].num_sets >= 1
        /\ levels[l].size
             = levels[l].num_sets * levels[l].block_size * levels[l].associativity

\* C12: under LRU a 'B' access that hits leaves the order of the set's
\* resident tags as it was, while a Read or Write hit moves the tag to the
\* most-recently-used end.
C12_RefillKeepsOrder ==
    [][ \A l \in Chain : \A address \in DriverAddresses(levels[l]) :
          \A operation \in KnownOperations :
            LET L == levels[l]
                i == _calculate_index(L, address)
                tag == _calculate_tag(L, address)
            IN  (/\ Access(l, operation, address)
                 /\ L.eviction_policy = "LRU"
                 /\ HasKey(L.cache[i], tag))
                    => IF operation = "B"
                       THEN levels'[l].cache[i] = L.cache[i]
                       ELSE levels'[l].cache[i] = move_to_end(L.cache[i], tag) ]_vars

\* C13: evict(setIndex) on a non-empty set under FIFO, LRU or MRU returns
\* without an error, removes exactly one tag from the set's mapping (and from
\* its dirty set), and reports exactly one eviction, of the victim's block.
C13_EvictRemovesOne ==
    [][ \A l \in Chain : \A cache_index \in DOMAIN levels[l].cache :
          LET L == levels[l]
              od == L.cache[cache_index]
              gone == Keys(od) \ Keys(levels'[l].cache[cache_index])
          IN  (/\ Evict(l, cache_index)
               /\ od # << >>
               /\ L.eviction_policy \in KnownPolicies)
                  => /\ last'.raised = "none"
                     /\ Cardinality(gone) = 1
                     /\ Keys(levels'[l].cache[cache_index]) \subseteq Keys(od)
                     /\ levels'[l].dirty_bits[cache_index]
                          = L.dirty_bits[cache_index] \ gone
                     /\ \A tag \in gone :
                          SelectSeq(reports', LAMBDA r : r.kind = "eviction")
                            = << Report("eviction", l,
                                   _calculate_block_address_from_tag_index(L, tag, cache_index)) >> ]_vars

\* C14: after an access with R, W or B under FIFO, LRU or MRU that found its
\* tag not resident, the tag is resident at the newest (last) place of its
\* set, mapped to the block address of the accessed address; also when the
\* set was full before the call.
C14_MissFillsNewest ==
    (/\ last.op = "access"
     /\ ~last.hit
     /\ last.operation \in KnownOperations
     /\ CalledLevel.eviction_policy \in KnownPolicies)
        => LET od == CalledLevel.cache[CalledSet]
           IN  /\ od # << >>
               /\ od[Len(od)] = [tag |-> _calculate_tag(CalledLevel, last.arg),
                                 block |-> _calculate_block_address(CalledLevel, last.arg)]

\* the reports of the last call made by the given level, and the places in
\* the report sequence where they stand
ReportsBy(l) == { k \in DOMAIN reports : reports[k].level = l }

\* C15: invalidate(b) on a level that holds b and has a lower level first
\* invalidates b below, so that every report of the lower level comes before
\* this level's own reports, and afterwards b is resident in neither level.
C15_InvalidateReachesLower ==
    (/\ last.op = "invalidate"
     /\ last.hit
     /\ LowerLevel(last.level) # 0)
        => /\ ~is_resident(CalledLevel, last.arg)
           /\ ~is_resident(levels[LowerLevel(last.level)], last.arg)
           /\ \A j \in ReportsBy(LowerLevel(last.level)) :
                \A k \in ReportsBy(last.level) : j < k

\* C16: invalidate(b) on a level where b is resident and dirty reports one
\* writeback of b and then one eviction of b, and b is afterwards neither
\* resident nor dirty; where b is resident and clean it reports the eviction
\* only.  No call makes a dirty block non-resident without reporting its
\* writeback, before any report of its eviction.
C16_FlushBeforeDiscard ==
    [][ /\ LET l == last'.level
                block_address == last'.arg
            IN  (last'.op = "invalidate" /\ is_resident(levels[l], block_address))
                  => /\ reports' =
                          IF is_dirty(levels[l], block_address)
                          THEN << Report("writeback", l, block_address),
                                  Report("eviction", l, block_address) >>
                          ELSE << Report("eviction", l, block_address) >>
                     /\ ~is_resident(levels'[l], block_address)
                     /\ ~is_dirty(levels'[l], block_address)
        /\ \A l \in Chain : \A i \in DOMAIN levels[l].cache :
              \A tag \in levels[l].dirty_bits[i] :
                  tag \notin Keys(levels'[l].cache[i])
                      => LET b == _calculate_block_address_from_tag_index(levels[l], tag, i)
                         IN  \E k \in DOMAIN reports' :
                                /\ reports'[k] = Report("writeback", l, b)
                                /\ \A j \in DOMAIN reports' :
                                      reports'[j] = Report("eviction", l, b) => k < j ]_vars

\* a dirty block has just been invalidated: its writeback and then its
\* eviction were reported, and it is neither resident nor dirty
C16_Witness ==
    /\ last.op = "invalidate"
    /\ last.hit
    /\ reports = << Report("writeback", last.level, last.arg),
                    Report("eviction", last.level, last.arg) >>
    /\ ~is_resident(CalledLevel, last.arg)
    /\ ~is_dirty(CalledLevel, last.arg)

\* C17: an access that misses at a level with a higher level reads the block
\* from the higher level (which reports that read as its hit or miss), and
\* when the block is dirty in the higher level after the fetch the block just
\* allocated here is dirty as well.
C17_MissFetchesFromHigher ==
    [][ \A l \in Chain : \A address \in DriverAddresses(levels[l]) :
          \A operation \in KnownOperations :
            LET L == levels[l]
                h == HigherLevel(l)
                b == _calculate_block_address(L, address)
            IN  (/\ Access(l, operation, address)
                 /\ ~is_resident(L, b)
                 /\ last'.raised = "none"
                 /\ h # 0)
                    => /\ \E k \in DOMAIN reports' :
                            /\ reports'[k].level = h
                            /\ reports'[k].kind \in {"hit", "miss"}
                       /\ is_dirty(levels'[h], b) => is_dirty(levels'[l], b) ]_vars

\* evict on a level whose policy is none of the three returns without
\* changing the level or reporting anything
UnknownPolicyEvictIsNoOp ==
    \A l \in Chain : \A cache_index \in DOMAIN levels[l].cache :
        (Evict(l, cache_index) /\ levels[l].eviction_policy \notin KnownPolicies)
            => /\ levels' = levels
               /\ reports' = << >>
               /\ last'.raised = "none"

C19_StoredBlockAddress ==
    \A l \in Chain : \A i \in DOMAIN levels[l].cache :
        \A k \in DOMAIN levels[l].cache[i] :
            LET e == levels[l].cache[i][k]
            IN  /\ e.block = (e.tag * levels[l].num_sets + i) * levels[l].block_size
                /\ e.block = _calculate_block_address_from_tag_index(levels[l], e.tag, i)

\* an access to an address inside a block (not its first byte) has just
\* filled a tag other than 0
C19_Witness ==
    /\ last.op = "access"
    /\ ~last.hit
    /\ last.raised = "none"
    /\ last.arg % CalledLevel.block_size # 0
    /\ _calculate_tag(CalledLevel, last.arg) > 0
    /\ is_resident(CalledLevel, last.arg)

====
